---- MODULE Spec2Model ----
(***************************************************************************)
(* Model of the pypsi statement-processing core:                           *)
(*   - HexCodePlugin.on_tokenize      (src/pypsi/plugins/hexcode.py)       *)
(*   - get_subtokens, VariablePlugin  (src/pypsi/plugins/variable.py)      *)
(*   - InvocationThread               (src/pypsi/pipes.py)                 *)
(*   - ThreadLocalStream              (src/pypsi/pipes.py)                 *)
(*   - VariableCommand.run            (src/pypsi/plugins/variable.py)      *)
(*                                                                         *)
(* A Python str is a sequence of code points (naturals), so that chr() and *)
(* int(s, 16) are computed and not assumed.  A Python value whose type     *)
(* matters is a tagged record: None, StrV(s), IntV(n).                     *)
(***************************************************************************)
EXTENDS Integers, Sequences, FiniteSets, TLC

VARIABLES
    tokens,      \* the token list handed from hook to hook (mutated in place)
    origTokens,  \* the token list as the tokenizer produced it
    plugins,     \* the plugins registered with the shell
    ran,         \* the plugins whose on_tokenize hook has run
    raised,      \* the exception that escaped a hook, or None
    ns,          \* VariablePlugin.namespace: name -> stored value
    nsInit,      \* the namespace when the line was read
    tstate,      \* per InvocationThread: position in the thread's life
    rc,          \* per InvocationThread: self.rc
    exc_info,    \* per InvocationThread: self.exc_info
    result,      \* per InvocationThread: what invoke(shell) did, once it ended
    closed,      \* per invocation: close_streams() has closed its streams
    closeCalls,  \* per invocation: number of close_streams() calls
    stopPc,      \* per InvocationThread: a caller's position inside stop()
    stopCalls,   \* per InvocationThread: number of stop() calls begun
    stopAt,      \* per InvocationThread: tstate when stop() was last called
    escaped,     \* per InvocationThread: an exception left run()
    _target,     \* ThreadLocalStream._target: the canonical triple
    _proxies,    \* ThreadLocalStream._proxies: thread ident -> triple
    fetched,     \* per thread: the stream whose write it has looked up
    lastWrite,   \* the last write made through the ThreadLocalStream
    installed,   \* per thread: the triple it installed and has not removed
    stage,       \* per pipeline thread: position in the thread's life
    args,        \* VariableCommand.run: the argument list of the command
    status,      \* VariableCommand.run: what run() returned, once it has
    reports,     \* VariableCommand.run: what it sent to the shell's channels
    cmdRaised    \* VariableCommand.run: the exception that left run(), or None

tokVars == <<tokens, origTokens, plugins, ran, raised, ns, nsInit>>
thrVars == <<tstate, rc, exc_info, result, closed, closeCalls, stopPc, stopCalls, stopAt, escaped>>
cmdVars == <<args, status, reports, cmdRaised>>
pxVars == <<_target, _proxies, fetched, lastWrite, installed, stage>>
vars == <<tokens, origTokens, plugins, ran, raised, ns, nsInit,
          tstate, rc, exc_info, result, closed, closeCalls, stopPc, stopCalls, stopAt, escaped,
          _target, _proxies, fetched, lastWrite, installed, stage,
          args, status, reports, cmdRaised>>

---------------------------------------------------------------------------
(* Python values *)

None == [t |-> "None"]
StrV(s) == [t |-> "str", v |-> s]
IntV(n) == [t |-> "int", v |-> n]
ExcV(name) == [t |-> "exc", name |-> name]
\* no value: a name that is not stored, a call that has not returned
Unset == [t |-> "unset"]

(* Characters, as code points *)
Backslash == 92
LowerX == 120
Dollar == 36
Space == 32
Minus == 45
Plus == 43

---------------------------------------------------------------------------
(* Bounds *)

MaxHexLen == 5
MaxVarLen == 4
MaxValLen == 2
MaxStops == 2
MaxArgs == 4

RECURSIVE SeqsUpTo(_, _)
SeqsUpTo(S, n) ==
    IF n = 0 THEN {<<>>}
    ELSE LET shorter == SeqsUpTo(S, n - 1)
         IN  shorter \cup {Append(s, c) : s \in {x \in shorter : Len(x) = n - 1}, c \in S}

IsPrefix(s, t) == Len(s) <= Len(t) /\ SubSeq(t, 1, Len(s)) = s

Contains(s, c) == \E i \in 1..Len(s) : s[i] = c

---------------------------------------------------------------------------
(* Tokens (pypsi.cmdline) *)

StringToken(index, c, quote) ==
    [type |-> "String", index |-> index, text |-> c, quote |-> quote]

WhitespaceToken(index) == [type |-> "Whitespace", index |-> index]

IsString(tok) == tok.type = "String"

---------------------------------------------------------------------------
(* HexCodePlugin.on_tokenize *)

\* int() accepts these as digits in base 16
HexVal(c) ==
    IF c >= 48 /\ c <= 57 THEN c - 48
    ELSE IF c >= 65 /\ c <= 70 THEN c - 55
    ELSE IF c >= 97 /\ c <= 102 THEN c - 87
    ELSE -1

IsHexDigit(c) == HexVal(c) >= 0

RECURSIVE LStrip(_)
LStrip(s) == IF s # <<>> /\ Head(s) = Space THEN LStrip(Tail(s)) ELSE s

RECURSIVE RStrip(_)
RStrip(s) ==
    IF s # <<>> /\ s[Len(s)] = Space THEN RStrip(SubSeq(s, 1, Len(s) - 1)) ELSE s

RECURSIVE DigitsValue(_, _, _)
DigitsValue(s, base, acc) ==
    IF s = <<>> THEN acc
    ELSE DigitsValue(Tail(s), base, acc * base + HexVal(Head(s)))

\* int(s, base=10)
IntBaseAs10(s) ==
    LET body == RStrip(LStrip(s))
        signed == body # <<>> /\ body[1] \in {Minus, Plus}
        digits == IF signed THEN Tail(body) ELSE body
        good == digits # <<>> /\ \A i \in 1..Len(digits) :
                    HexVal(digits[i]) >= 0 /\ HexVal(digits[i]) < 10
        mag == DigitsValue(digits, 10, 0)
    IN  IF good
        THEN [ok |-> TRUE, v |-> IF signed /\ body[1] = Minus THEN 0 - mag ELSE mag]
        ELSE [ok |-> FALSE, v |-> 0]

\* int(s, base=16) of Python for the two characters collected: surrounding
\* whitespace is stripped, one sign is accepted, then at least one hex digit
\* and nothing else ("0x" alone and a leading or trailing "_" are rejected
\* like any other non-digit).  [ok |-> FALSE] stands for ValueError.
IntBase16(s) ==
    LET body == RStrip(LStrip(s))
        signed == body # <<>> /\ body[1] \in {Minus, Plus}
        digits == IF signed THEN Tail(body) ELSE body
        good == digits # <<>> /\ \A i \in 1..Len(digits) : IsHexDigit(digits[i])
        mag == DigitsValue(digits, 16, 0)
    IN  IF good
        THEN [ok |-> TRUE, v |-> IF signed /\ body[1] = Minus THEN 0 - mag ELSE mag]
        ELSE [ok |-> FALSE, v |-> 0]

\* chr(n) raises ValueError outside range(0x110000)
ChrOk(n) == n >= 0 /\ n < 1114112

HexStart == [escape |-> FALSE, hexcode |-> None, text |-> <<>>, raised |-> None]

HexNormal(s) == ~s.escape /\ s.hexcode = None /\ s.raised = None

\* the same body parsing the two characters in base 10
HexStepBase10(s, c) ==
    IF s.raised # None THEN s
    ELSE IF s.escape THEN
        IF c = LowerX
        THEN [s EXCEPT !.escape = FALSE, !.hexcode = StrV(<<>>)]
        ELSE [s EXCEPT !.escape = FALSE, !.text = @ \o <<Backslash, c>>]
    ELSE IF s.hexcode # None THEN
        LET h == s.hexcode.v \o <<c>>
            p == IntBaseAs10(h)
        IN  IF Len(h) # 2 THEN [s EXCEPT !.hexcode = StrV(h)]
            ELSE IF p.ok /\ ChrOk(p.v)
            THEN [s EXCEPT !.text = @ \o <<p.v>>, !.hexcode = None]
            ELSE IF p.ok
            THEN [s EXCEPT !.hexcode = IntV(p.v), !.raised = ExcV("TypeError")]
            ELSE [s EXCEPT !.text = @ \o <<Backslash, LowerX>> \o h, !.hexcode = StrV(h)]
    ELSE IF c = Backslash THEN [s EXCEPT !.escape = TRUE]
    ELSE [s EXCEPT !.text = @ \o <<c>>]

\* the body of "for c in token.text", lines 20..38.  A parse that fails
\* (ValueError from int) appends \x and the two characters and leaves hexcode
\* holding them.  A parse that succeeds with a negative number fails in chr()
\* with hexcode already an int, and the handler's '\\x' + hexcode raises
\* TypeError, which leaves on_tokenize.
HexStep(s, c) ==
    IF s.raised # None THEN s
    ELSE IF s.escape THEN
        IF c = LowerX
        THEN [s EXCEPT !.escape = FALSE, !.hexcode = StrV(<<>>)]
        ELSE [s EXCEPT !.escape = FALSE, !.text = @ \o <<Backslash, c>>]
    ELSE IF s.hexcode # None THEN
        LET h == s.hexcode.v \o <<c>>
            p == IntBase16(h)
        IN  IF Len(h) # 2 THEN [s EXCEPT !.hexcode = StrV(h)]
            ELSE IF p.ok /\ ChrOk(p.v)
            THEN [s EXCEPT !.text = @ \o <<p.v>>, !.hexcode = None]
            ELSE IF p.ok
            THEN [s EXCEPT !.hexcode = IntV(p.v), !.raised = ExcV("TypeError")]
            ELSE [s EXCEPT !.text = @ \o <<Backslash, LowerX>> \o h, !.hexcode = StrV(h)]
    ELSE IF c = Backslash THEN [s EXCEPT !.escape = TRUE]
    ELSE [s EXCEPT !.text = @ \o <<c>>]

\* the loop of lines 19..38 over the first n characters of text
RECURSIVE HexScan(_, _)
HexScan(text, n) ==
    IF n = 0 THEN HexStart ELSE HexStep(HexScan(text, n - 1), text[n])

\* lines 40..44: what is appended after the loop
HexFinish(s) ==
    LET pending == IF s.hexcode # None /\ s.hexcode.v # <<>>
                   THEN <<Backslash, LowerX>> \o s.hexcode.v ELSE <<>>
        trailing == IF s.escape THEN <<Backslash>> ELSE <<>>
    IN  s.text \o pending \o trailing

\* lines 13..46 for one token: the token after the loop body, and whether
\* an exception left it
HexToken(tok) ==
    IF ~IsString(tok) \/ ~Contains(tok.text, Backslash)
    THEN [tok |-> tok, raised |-> None]
    ELSE LET s == HexScan(tok.text, Len(tok.text))
         IN  IF s.raised # None
             THEN [tok |-> tok, raised |-> s.raised]
             ELSE [tok |-> [tok EXCEPT !.text = HexFinish(s)], raised |-> None]

\* on_tokenize that removes a token whose decoded text is empty
RECURSIVE HexTokensCompacting(_, _)
HexTokensCompacting(toks, n) ==
    IF n = 0 THEN [toks |-> <<>>, raised |-> None]
    ELSE LET before == HexTokensCompacting(toks, n - 1)
             r == HexToken(toks[n])
         IN  IF before.raised # None
             THEN [toks |-> Append(before.toks, toks[n]), raised |-> before.raised]
             ELSE IF IsString(r.tok) /\ r.tok.text = <<>>
             THEN [toks |-> before.toks, raised |-> r.raised]
             ELSE [toks |-> Append(before.toks, r.tok), raised |-> r.raised]

\* lines 12..47: tokens are rewritten in place, left to right, up to the
\* first one that raises
RECURSIVE HexTokens(_, _)
HexTokens(toks, n) ==
    IF n = 0 THEN [toks |-> toks, raised |-> None]
    ELSE LET before == HexTokens(toks, n - 1)
             r == HexToken(toks[n])
         IN  IF before.raised # None THEN before
             ELSE [toks |-> [before.toks EXCEPT ![n] = r.tok], raised |-> r.raised]

---------------------------------------------------------------------------
(* Variable substitution: VariableToken, get_subtokens, VariablePlugin *)

VariableToken(prefix, index, var) ==
    [type |-> "Variable", prefix |-> prefix, index |-> index, var |-> var]

\* VarChars with the punctuation next to the letters and digits let in
IsVarCharWide(c) == c >= 47 /\ c <= 123

\* VariableToken.VarChars
IsVarChar(c) ==
    \/ c >= 97 /\ c <= 122
    \/ c >= 65 /\ c <= 90
    \/ c >= 48 /\ c <= 57
    \/ c = 95

\* truth value of what get_subtokens keeps in subt and var: '' and None are
\* false, a token object is true
Truthy(x) == x # None /\ x # StrV(<<>>)

SubStart(token) ==
    [escape |-> FALSE, index |-> token.index.v, subt |-> StrV(<<>>), var |-> None,
     out |-> <<>>]

\* the same body with an escape branch that always keeps the backslash
SubStepKeepsBackslash(s, c, prefix, quote) ==
    LET next ==
        IF s.escape THEN
            [s EXCEPT !.escape = FALSE,
                      !.subt.text = @ \o <<Backslash>> \o <<c>>]
        ELSE IF Truthy(s.var) THEN
            IF IsVarChar(c)
            THEN [s EXCEPT !.var.var = @ \o <<c>>]
            ELSE IF c = prefix
            THEN [s EXCEPT !.out = Append(@, s.var),
                           !.var = VariableToken(IntV(s.index), StrV(<<c>>), <<>>)]
            ELSE [s EXCEPT !.out = Append(@, s.var),
                           !.var = None,
                           !.escape = (c = Backslash),
                           !.subt = StringToken(IntV(s.index),
                                        IF c = Backslash THEN <<>> ELSE <<c>>, quote)]
        ELSE IF c = prefix THEN
            [s EXCEPT !.out = IF Truthy(s.subt) THEN Append(@, s.subt) ELSE @,
                      !.subt = IF Truthy(s.subt) THEN None ELSE @,
                      !.var = VariableToken(StrV(<<c>>), IntV(s.index), <<>>)]
        ELSE
            LET cc == IF c = Backslash THEN <<>> ELSE <<c>>
            IN  IF ~Truthy(s.subt)
                THEN [s EXCEPT !.escape = (c = Backslash),
                               !.subt = StringToken(IntV(s.index), cc, quote)]
                ELSE [s EXCEPT !.escape = (c = Backslash), !.subt.text = @ \o cc]
    IN  [next EXCEPT !.index = @ + 1]

\* the body of "for c in token.text", lines 140..171
SubStep(s, c, prefix, quote) ==
    LET next ==
        IF s.escape THEN
            [s EXCEPT !.escape = FALSE,
                      !.subt.text = @ \o (IF c # prefix THEN <<Backslash>> ELSE <<>>) \o <<c>>]
        ELSE IF Truthy(s.var) THEN
            IF IsVarChar(c)
            THEN [s EXCEPT !.var.var = @ \o <<c>>]
            ELSE IF c = prefix
            THEN [s EXCEPT !.out = Append(@, s.var),
                           !.var = VariableToken(IntV(s.index), StrV(<<c>>), <<>>)]
            ELSE [s EXCEPT !.out = Append(@, s.var),
                           !.var = None,
                           !.escape = (c = Backslash),
                           !.subt = StringToken(IntV(s.index),
                                        IF c = Backslash THEN <<>> ELSE <<c>>, quote)]
        ELSE IF c = prefix THEN
            [s EXCEPT !.out = IF Truthy(s.subt) THEN Append(@, s.subt) ELSE @,
                      !.subt = IF Truthy(s.subt) THEN None ELSE @,
                      !.var = VariableToken(StrV(<<c>>), IntV(s.index), <<>>)]
        ELSE
            LET cc == IF c = Backslash THEN <<>> ELSE <<c>>
            IN  IF ~Truthy(s.subt)
                THEN [s EXCEPT !.escape = (c = Backslash),
                               !.subt = StringToken(IntV(s.index), cc, quote)]
                ELSE [s EXCEPT !.escape = (c = Backslash), !.subt.text = @ \o cc]
    IN  [next EXCEPT !.index = @ + 1]

\* the loop of lines 139..171 over the first n characters of the token
RECURSIVE SubScan(_, _, _)
SubScan(token, prefix, n) ==
    IF n = 0 THEN SubStart(token)
    ELSE SubStep(SubScan(token, prefix, n - 1), token.text[n], prefix, token.quote)

\* get_subtokens(token, prefix): everything the generator yields, in order
get_subtokens(token, prefix) ==
    LET s == SubScan(token, prefix, Len(token.text))
    IN  IF Truthy(s.subt) THEN Append(s.out, s.subt)
        ELSE IF Truthy(s.var) THEN Append(s.out, s.var)
        ELSE s.out

\* expand() that resolves an absent name with namespace.setdefault(name, '')
expandStoring(nsp, vart) ==
    LET name == vart.var
    IN  IF name \in DOMAIN nsp
        THEN LET s == nsp[name]
             IN  IF s.t = "callable" THEN [value |-> s.ret, ns |-> nsp]
                 ELSE IF s.t = "managed" THEN [value |-> s.getter, ns |-> nsp]
                 ELSE [value |-> s, ns |-> nsp]
        ELSE [value |-> StrV(<<>>),
              ns |-> [n \in DOMAIN nsp \cup {name} |->
                        IF n = name THEN StrV(<<>>) ELSE nsp[n]]]

\* VariablePlugin.expand(shell, vart): the value the reference resolves to,
\* and the namespace after the call.  A stored value is StrV(s), a callable
\* [t |-> "callable", ret |-> what calling it returns], a ManagedVariable
\* [t |-> "managed", getter |-> what getter(shell) returns, setter |-> ...].
expand(nsp, vart) ==
    LET name == vart.var
    IN  IF name \in DOMAIN nsp
        THEN LET s == nsp[name]
             IN  IF s.t = "callable" THEN [value |-> s.ret, ns |-> nsp]
                 ELSE IF s.t = "managed" THEN [value |-> s.getter, ns |-> nsp]
                 ELSE [value |-> s, ns |-> nsp]
        ELSE [value |-> StrV(<<>>), ns |-> nsp]

\* str.split() with no argument: the maximal runs of non-whitespace
IsWhitespace(c) == c \in {9, 10, 11, 12, 13, Space}

RECURSIVE SplitFrom(_, _, _, _)
SplitFrom(s, i, cur, out) ==
    LET flushed == IF cur # <<>> THEN Append(out, cur) ELSE out
    IN  IF i > Len(s) THEN flushed
        ELSE IF IsWhitespace(s[i]) THEN SplitFrom(s, i + 1, <<>>, flushed)
        ELSE SplitFrom(s, i + 1, Append(cur, s[i]), out)

\* a split that cuts at every single whitespace character, as
\* str.split(' ') does
RECURSIVE SplitEachFrom(_, _, _, _)
SplitEachFrom(s, i, cur, out) ==
    IF i > Len(s) THEN Append(out, cur)
    ELSE IF IsWhitespace(s[i]) THEN SplitEachFrom(s, i + 1, <<>>, Append(out, cur))
    ELSE SplitEachFrom(s, i + 1, Append(cur, s[i]), out)

SplitEach(s) == SplitEachFrom(s, 1, <<>>, <<>>)

Split(s) == SplitFrom(s, 1, <<>>, <<>>)

\* lines 227..233: the tokens an unquoted expansion becomes
RECURSIVE WordTokens(_, _, _)
WordTokens(parts, k, index) ==
    IF k = 0 THEN <<>>
    ELSE WordTokens(parts, k - 1, index)
            \o (IF k > 1 THEN <<WhitespaceToken(index)>> ELSE <<>>)
            \o <<StringToken(index, parts[k], None)>>

\* lines 223..233 with the quote test dropped: every expansion is split
ExpansionAlwaysSplit(token, subt, expanded) ==
    WordTokens(Split(expanded.v), Len(Split(expanded.v)), subt.index)

\* lines 223..233 with a Whitespace token also put in front of every
\* expansion that follows another token of the same source token
ExpansionSeparated(token, subt, expanded) ==
    IF Truthy(token.quote)
    THEN <<StringToken(subt.index, expanded.v, token.quote)>>
    ELSE (IF subt.index.t = "str" THEN <<WhitespaceToken(subt.index)>> ELSE <<>>)
            \o WordTokens(Split(expanded.v), Len(Split(expanded.v)), subt.index)

\* lines 223..233: what on_tokenize appends for one reference
Expansion(token, subt, expanded) ==
    IF Truthy(token.quote)
    THEN <<StringToken(subt.index, expanded.v, token.quote)>>
    ELSE WordTokens(Split(expanded.v), Len(Split(expanded.v)), subt.index)

\* lines 218..233 over the first n subtokens of one token
RECURSIVE VarSubtokens(_, _, _, _)
VarSubtokens(token, subts, n, nsp) ==
    IF n = 0 THEN [out |-> <<>>, ns |-> nsp]
    ELSE LET before == VarSubtokens(token, subts, n - 1, nsp)
             subt == subts[n]
             e == expand(before.ns, subt)
         IN  IF IsString(subt)
             THEN [out |-> Append(before.out, subt), ns |-> before.ns]
             ELSE [out |-> before.out \o Expansion(token, subt, e.value), ns |-> e.ns]

\* lines 213..233 over the first n tokens of the list
RECURSIVE VarTokens(_, _, _, _)
VarTokens(toks, n, prefix, nsp) ==
    IF n = 0 THEN [out |-> <<>>, ns |-> nsp]
    ELSE LET before == VarTokens(toks, n - 1, prefix, nsp)
             token == toks[n]
             subts == get_subtokens(token, prefix)
             r == VarSubtokens(token, subts, Len(subts), before.ns)
         IN  IF ~IsString(token) \/ ~Contains(token.text, prefix)
             THEN [out |-> Append(before.out, token), ns |-> before.ns]
             ELSE [out |-> before.out \o r.out, ns |-> r.ns]

---------------------------------------------------------------------------
(* The tokenize hooks of the shell *)

\* Plugin priorities: the defaults of the two constructors
HexPreprocess == 5
VarPreprocess == 10

Preprocess(p) == IF p = "hex" THEN HexPreprocess ELSE VarPreprocess

\* VariablePlugin.prefix
Prefix == Dollar

\* the hook that runs next: the registered hook of lowest priority that has
\* not run, while no hook has raised
IsNextHook(p) ==
    /\ p \in plugins \ ran
    /\ raised = None
    /\ \A q \in plugins \ ran : Preprocess(p) <= Preprocess(q)

HexOnTokenize ==
    /\ IsNextHook("hex")
    /\ LET r == HexTokens(tokens, Len(tokens))
       IN  tokens' = r.toks /\ raised' = r.raised
    /\ ran' = ran \cup {"hex"}
    /\ UNCHANGED <<origTokens, plugins, ns, nsInit>>
    /\ UNCHANGED <<thrVars, pxVars, cmdVars>>

VarOnTokenize ==
    /\ IsNextHook("var")
    /\ LET r == VarTokens(tokens, Len(tokens), Prefix, ns)
       IN  tokens' = r.out /\ ns' = r.ns
    /\ ran' = ran \cup {"var"}
    /\ UNCHANGED <<origTokens, plugins, raised, nsInit>>
    /\ UNCHANGED <<thrVars, pxVars, cmdVars>>

---------------------------------------------------------------------------
(* InvocationThread *)

Threads == {1, 2}

\* what invoke(shell) can return
ReturnCodes == {None, IntV(0), IntV(1)}

\* threading.Thread.is_alive(): from start() until the thread has ended
is_alive(t) == tstate[t] \in {"running", "blocked", "exiting"}

\* run() without the except clause: the exception leaves run()
runUncaught(t, outcome) ==
    IF outcome.t = "exc"
    THEN [rc |-> rc, exc_info |-> exc_info, escaped |-> [escaped EXCEPT ![t] = TRUE]]
    ELSE [rc |-> [rc EXCEPT ![t] = outcome], exc_info |-> exc_info, escaped |-> escaped]

\* run() keeping the failure record in one place shared by all threads
runShared(t, outcome) ==
    IF outcome.t = "exc"
    THEN [rc |-> [rc EXCEPT ![t] = None],
          exc_info |-> [u \in Threads |-> outcome],
          escaped |-> escaped]
    ELSE [rc |-> [rc EXCEPT ![t] = outcome], exc_info |-> exc_info, escaped |-> escaped]

\* run(), lines 232..238: the fields of every thread after thread t's
\* invoke(shell) ended with outcome (a return value, or an exception)
run(t, outcome) ==
    IF outcome.t = "exc"
    THEN [rc |-> [rc EXCEPT ![t] = None],
          exc_info |-> [exc_info EXCEPT ![t] = outcome],
          escaped |-> escaped]
    ELSE [rc |-> [rc EXCEPT ![t] = outcome], exc_info |-> exc_info, escaped |-> escaped]

\* stop() without the is_alive() test
stopAlways(t) == "closing"

\* stop() that tests is_alive() and then does nothing
stopNever(t) == "idle"

\* stop(), line 246: whether the call goes on to close_streams()
stop(t) == IF is_alive(t) THEN "closing" ELSE "idle"

Start(t) ==
    /\ tstate[t] = "new"
    /\ tstate' = [tstate EXCEPT ![t] = "running"]
    /\ UNCHANGED <<rc, exc_info, result, closed, closeCalls, stopPc, stopCalls, stopAt, escaped>>
    /\ UNCHANGED <<tokVars, pxVars, cmdVars>>

\* the invocation starts a stream read or write that does not complete
Block(t) ==
    /\ tstate[t] = "running"
    /\ ~closed[t]
    /\ tstate' = [tstate EXCEPT ![t] = "blocked"]
    /\ UNCHANGED <<rc, exc_info, result, closed, closeCalls, stopPc, stopCalls, stopAt, escaped>>
    /\ UNCHANGED <<tokVars, pxVars, cmdVars>>

\* the pending stream operation returns
Unblock(t) ==
    /\ tstate[t] = "blocked"
    /\ tstate' = [tstate EXCEPT ![t] = "running"]
    /\ UNCHANGED <<rc, exc_info, result, closed, closeCalls, stopPc, stopCalls, stopAt, escaped>>
    /\ UNCHANGED <<tokVars, pxVars, cmdVars>>

Finish(t, outcome) ==
    LET r == run(t, outcome)
    IN  /\ rc' = r.rc
        /\ exc_info' = r.exc_info
        /\ escaped' = r.escaped
        /\ result' = [result EXCEPT ![t] = outcome]
        /\ tstate' = [tstate EXCEPT ![t] = "exiting"]
        /\ UNCHANGED <<closed, closeCalls, stopPc, stopCalls, stopAt>>
        /\ UNCHANGED <<tokVars, pxVars, cmdVars>>

\* invoke(shell) returns
RunReturn(t) ==
    /\ tstate[t] = "running"
    /\ \E code \in ReturnCodes : Finish(t, code)

\* invoke(shell) raises
RunRaise(t) ==
    /\ tstate[t] = "running"
    /\ Finish(t, ExcV("Exception"))

\* the pending stream operation fails because the stream was closed, and
\* the exception leaves invoke(shell)
BlockedFail(t) ==
    /\ tstate[t] = "blocked"
    /\ closed[t]
    /\ Finish(t, ExcV("ValueError"))

\* the thread ends: is_alive() is false from here on
Exit(t) ==
    /\ tstate[t] = "exiting"
    /\ tstate' = [tstate EXCEPT ![t] = "dead"]
    /\ UNCHANGED <<rc, exc_info, result, closed, closeCalls, stopPc, stopCalls, stopAt, escaped>>
    /\ UNCHANGED <<tokVars, pxVars, cmdVars>>

\* a caller enters stop(), line 246
StopBegin(t) ==
    /\ stopPc[t] = "idle"
    /\ stopCalls[t] < MaxStops
    /\ stopCalls' = [stopCalls EXCEPT ![t] = @ + 1]
    /\ stopAt' = [stopAt EXCEPT ![t] = tstate[t]]
    /\ stopPc' = [stopPc EXCEPT ![t] = stop(t)]
    /\ UNCHANGED <<tstate, rc, exc_info, result, closed, closeCalls, escaped>>
    /\ UNCHANGED <<tokVars, pxVars, cmdVars>>

\* lines 247..250: close_streams(), whose failure is swallowed
StopClose(t) ==
    /\ stopPc[t] = "closing"
    /\ closed' = [closed EXCEPT ![t] = TRUE]
    /\ closeCalls' = [closeCalls EXCEPT ![t] = @ + 1]
    /\ stopPc' = [stopPc EXCEPT ![t] = "idle"]
    /\ UNCHANGED <<tstate, rc, exc_info, result, stopCalls, stopAt, escaped>>
    /\ UNCHANGED <<tokVars, pxVars, cmdVars>>

---------------------------------------------------------------------------
(* ThreadLocalStream *)

BoolV(b) == [t |-> "bool", v |-> b]

\* the threads that write through the stream: the main thread and the
\* threads of the three stages of  a | b | c
StreamThreads == {"main", "a", "b", "c"}
StageThreads == {"a", "b", "c"}

\* threading.current_thread().ident: threads that are alive together have
\* distinct nonzero identifiers
Ident(t) ==
    CASE t = "main" -> 1
      [] t = "a" -> 2
      [] t = "b" -> 3
      [] t = "c" -> 4

\* a stream object; name is one of stdout (the canonical output), bIn and
\* cIn (the inputs of stages b and c), file (a redirection target)
Stream(name) == [t |-> "stream", name |-> name]

\* stream.isatty(): only the canonical output is a terminal
StreamIsatty(s) == BoolV(s = Stream("stdout"))

\* the tuple (target, width, isatty)
Triple(tgt, w, tty) == [target |-> tgt, width |-> w, isatty |-> tty]

\* _get_target() with one override for all threads: the entry of the lowest
\* identifier, if there is any
_get_targetShared(t) ==
    IF DOMAIN _proxies = {} THEN _target
    ELSE _proxies[CHOOSE i \in DOMAIN _proxies : \A j \in DOMAIN _proxies : i <= j]

\* _get_target(), line 65, on thread t
_get_target(t) ==
    IF Ident(t) \in DOMAIN _proxies THEN _proxies[Ident(t)] ELSE _target

\* _get_target_stream(), line 72
_get_target_stream(t) == _get_target(t).target

\* the width property, line 79
width(t) == _get_target(t).width

\* isatty(), lines 87..88
isatty(t) ==
    LET s == _get_target(t)
    IN  IF s.isatty # None THEN s.isatty ELSE StreamIsatty(s.target)

\* __getattr__(name), line 91: the object whose attribute thread t gets
__getattr__(t) == _get_target(t).target

\* _proxy(target, width, isatty), line 108, on thread t: the map afterwards
_proxy(t, triple) ==
    [i \in DOMAIN _proxies \cup {Ident(t)} |->
        IF i = Ident(t) THEN triple ELSE _proxies[i]]

\* _unproxy() that forgets every override
_unproxyAll(t, ident) == [i \in {} |-> _target]

\* _unproxy(ident), lines 119..121, on thread t: the map afterwards
_unproxy(t, ident) ==
    LET id == IF ident = None \/ ident = IntV(0) THEN Ident(t) ELSE ident.v
    IN  IF id \in DOMAIN _proxies
        THEN [i \in DOMAIN _proxies \ {id} |-> _proxies[i]]
        ELSE _proxies

\* the overrides the executor gives each stage of  a | b | c : a's output is
\* b's input, b's output is c's input, c's output may go to a file
Overrides(t) ==
    CASE t = "a" -> {Triple(Stream("bIn"), None, BoolV(FALSE)),
                     Triple(Stream("bIn"), IntV(40), None)}
      [] t = "b" -> {Triple(Stream("cIn"), None, BoolV(FALSE)),
                     Triple(Stream("cIn"), IntV(40), None)}
      [] t = "c" -> {Triple(Stream("file"), None, None)}
      [] OTHER -> {}

\* the executor starts the thread of a stage
Spawn(t) ==
    /\ t \in StageThreads
    /\ stage[t] = "new"
    /\ stage' = [stage EXCEPT ![t] = "alive"]
    /\ UNCHANGED <<_target, _proxies, fetched, lastWrite, installed>>
    /\ UNCHANGED <<tokVars, thrVars, cmdVars>>

\* thread t installs an override
Proxy(t, triple) ==
    /\ stage[t] = "alive"
    /\ fetched[t] = None
    /\ triple \in Overrides(t)
    /\ _proxies' = _proxy(t, triple)
    /\ installed' = [installed EXCEPT ![t] = triple]
    /\ UNCHANGED <<_target, fetched, lastWrite, stage>>
    /\ UNCHANGED <<tokVars, thrVars, cmdVars>>

\* thread t removes its override, naming itself or not
Unproxy(t, ident) ==
    /\ stage[t] = "alive"
    /\ fetched[t] = None
    /\ ident \in {None, IntV(Ident(t))}
    /\ _proxies' = _unproxy(t, ident)
    /\ installed' = [installed EXCEPT ![t] = None]
    /\ UNCHANGED <<_target, fetched, lastWrite, stage>>
    /\ UNCHANGED <<tokVars, thrVars, cmdVars>>

\* thread t evaluates  sys.stdout.write : the attribute lookup
GetWrite(t) ==
    /\ stage[t] = "alive"
    /\ fetched[t] = None
    /\ fetched' = [fetched EXCEPT ![t] = __getattr__(t)]
    /\ UNCHANGED <<_target, _proxies, lastWrite, installed, stage>>
    /\ UNCHANGED <<tokVars, thrVars, cmdVars>>

\* thread t calls the write method it looked up
CallWrite(t) ==
    /\ fetched[t] # None
    /\ lastWrite' = [by |-> t, to |-> fetched[t], own |-> installed[t]]
    /\ fetched' = [fetched EXCEPT ![t] = None]
    /\ UNCHANGED <<_target, _proxies, installed, stage>>
    /\ UNCHANGED <<tokVars, thrVars, cmdVars>>

\* the thread of a stage ends
End(t) ==
    /\ t \in StageThreads
    /\ stage[t] = "alive"
    /\ fetched[t] = None
    /\ stage' = [stage EXCEPT ![t] = "dead"]
    /\ UNCHANGED <<_target, _proxies, fetched, lastWrite, installed>>
    /\ UNCHANGED <<tokVars, thrVars, cmdVars>>

---------------------------------------------------------------------------
(* VariableCommand *)

\* a ManagedVariable with a setter, which takes the value and returns
ManagedSettable(r) == [t |-> "managed", getter |-> StrV(r), setter |-> TRUE]

\* ManagedVariable.set, lines 17..21: None once the setter has returned,
\* else the exception raised
ManagedVariableSet(s) == IF s.setter THEN None ELSE ExcV("ValueError")

\* e.message, line 109: an exception object has args and no attribute
\* 'message', so the attribute lookup raises
ExcMessage(e) == ExcV("AttributeError")

\* messages sent through the shell: Command.usage_error and Command.error
\* write to the error channel, shell.warn and shell.info to their own
UsageError(msg) == [channel |-> "error", kind |-> "usage_error", msg |-> msg]
Error(msg) == [channel |-> "error", kind |-> "error", msg |-> msg]
Warn(msg) == [channel |-> "warn", kind |-> "warn", msg |-> msg]
Info(name, value) == [channel |-> "info", kind |-> "info", name |-> name, value |-> value]

\* -h  -l  -d  =  +  x  errno
WordH == <<45, 104>>
WordL == <<45, 108>>
WordD == <<45, 100>>
WordEq == <<61>>
WordPlus == <<43>>
WordX == <<120>>
NameErrno == <<101, 114, 114, 110, 111>>

\* Expression.Operators: - + = / *
IsOperatorWord(w) == w # <<>> /\ \A i \in 1..Len(w) : w[i] \in {45, 43, 61, 47, 42}

\* Expression.parse(args): one operand, one operator, one value, read from
\* the front of the argument list; what is left over is returned with them
ExpressionParse(a) ==
    LET hasOperand == Len(a) >= 1 /\ ~IsOperatorWord(a[1])
        i == IF hasOperand THEN 2 ELSE 1
        hasOperator == Len(a) >= i /\ IsOperatorWord(a[i])
        j == IF hasOperator THEN i + 1 ELSE i
        hasValue == hasOperator /\ Len(a) >= j
        k == IF hasValue THEN j + 1 ELSE j
    IN  [remaining |-> SubSeq(a, k, Len(a)),
         operand |-> IF hasOperand THEN StrV(a[1]) ELSE None,
         operator |-> IF hasOperator THEN StrV(a[i]) ELSE None,
         value |-> IF hasValue THEN StrV(a[j]) ELSE None]

\* the checks of lines 78..96 with any operator accepted
CheckExpressionAnyOperator(p) ==
    IF p.remaining # <<>> THEN UsageError("cannot set multiple variables")
    ELSE IF p.operand = None THEN UsageError("missing variable name")
    ELSE IF p.operator = None THEN UsageError("missing operator")
    ELSE None

\* lines 78..96: the usage error of a parsed expression, or None
CheckExpression(p) ==
    IF p.remaining # <<>> THEN UsageError("cannot set multiple variables")
    ELSE IF p.operand = None THEN UsageError("missing variable name")
    ELSE IF p.operator = None THEN UsageError("missing operator")
    ELSE IF p.operator # StrV(WordEq) THEN UsageError("invalid operator")
    ELSE None

\* lines 101..109: the assignment, and the handler of the ValueError
SetVariable(nsp, name, value) ==
    IF name \in DOMAIN nsp /\ nsp[name].t = "managed"
    THEN LET e == ManagedVariableSet(nsp[name])
         IN  IF e = None
             THEN [ns |-> nsp, reports |-> <<>>, raised |-> None]
             ELSE LET m == ExcMessage(e)
                  IN  IF m.t = "exc"
                      THEN [ns |-> nsp, reports |-> <<>>, raised |-> m]
                      ELSE [ns |-> nsp,
                            reports |-> <<Error("error setting variable")>>,
                            raised |-> None]
    ELSE [ns |-> [n \in DOMAIN nsp \cup {name} |-> IF n = name THEN value ELSE nsp[n]],
          reports |-> <<>>,
          raised |-> None]

\* order of str: by code point, a proper prefix first
RECURSIVE StrLess(_, _)
StrLess(x, y) ==
    IF x = <<>> THEN y # <<>>
    ELSE IF y = <<>> THEN FALSE
    ELSE IF x[1] # y[1] THEN x[1] < y[1]
    ELSE StrLess(Tail(x), Tail(y))

\* lines 51..65: one line of information per variable, sorted by name
RECURSIVE Listing(_, _)
Listing(nsp, names) ==
    IF names = {} THEN <<>>
    ELSE LET name == CHOOSE n \in names : \A o \in names \ {n} : StrLess(n, o)
             s == nsp[name]
             v == IF s.t = "callable" THEN s.ret
                  ELSE IF s.t = "managed" THEN s.getter
                  ELSE s
         IN  <<Info(name, v)>> \o Listing(nsp, names \ {name})

\* VariableCommand.run(shell, args, ctx), lines 37..111: the namespace, the
\* returned status, the messages sent and the exception raised
VariableCommandRun(nsp, a) ==
    LET Returns(code, msgs) ==
            [ns |-> nsp, status |-> IntV(code), reports |-> msgs, raised |-> None]
    IN  IF a = <<>> THEN Returns(1, <<UsageError("missing required argument")>>)
        ELSE IF a[1] = WordH THEN Returns(0, <<Warn("usage")>>)
        ELSE IF a[1] = WordL
        THEN IF Len(a) # 1
             THEN Returns(1, <<Error("invalid arguments"), Warn("usage")>>)
             ELSE Returns(0, Listing(nsp, DOMAIN nsp))
        ELSE IF a[1] = WordD
        THEN IF Len(a) # 2
             THEN Returns(1, <<Error("invalid arguments"), Warn("usage")>>)
             ELSE [ns |-> [n \in DOMAIN nsp \ {a[2]} |-> nsp[n]],
                   status |-> IntV(0), reports |-> <<>>, raised |-> None]
        ELSE LET p == ExpressionParse(a)
                 err == CheckExpression(p)
             IN  IF err # None THEN Returns(1, <<err>>)
                 ELSE LET value == IF p.value = None THEN StrV(<<>>) ELSE p.value
                          r == SetVariable(nsp, p.operand.v, value)
                      IN  [ns |-> r.ns,
                           status |-> IF r.raised = None THEN IntV(0) ELSE Unset,
                           reports |-> r.reports,
                           raised |-> r.raised]

\* the shell runs the command  var args...
RunCommand ==
    /\ status = Unset
    /\ cmdRaised = None
    /\ LET r == VariableCommandRun(ns, args)
       IN  /\ ns' = r.ns
           /\ status' = r.status
           /\ reports' = r.reports
           /\ cmdRaised' = r.raised
    /\ UNCHANGED <<tokens, origTokens, plugins, ran, raised, nsInit, args>>
    /\ UNCHANGED <<thrVars, pxVars>>

\* the shell runs one more command of the session,  var a... , on the
\* namespace the commands before it have left
SessionCommand(a) ==
    /\ LET r == VariableCommandRun(ns, a)
       IN  /\ ns' = r.ns
           /\ status' = r.status
           /\ reports' = r.reports
           /\ cmdRaised' = r.raised
    /\ args' = a
    /\ UNCHANGED <<tokens, origTokens, plugins, ran, raised, nsInit>>
    /\ UNCHANGED <<thrVars, pxVars>>

---------------------------------------------------------------------------
(* Inputs *)

\* \ x 4 G space -
HexAlphabet == {Backslash, LowerX, 52, 71, Space, Minus}
\* \ $ a .
VarAlphabet == {Backslash, Dollar, 97, 46}
\* x space
ValAlphabet == {LowerX, Space}

\* \xGG\x44   4\x44G\x44   \x44\xG4
HexExamples ==
    { <<92, 120, 71, 71, 92, 120, 52, 52>>,
      <<52, 92, 120, 52, 52, 71, 92, 120, 52, 52>>,
      <<92, 120, 52, 52, 92, 120, 71, 52>> }

HexTexts == SeqsUpTo(HexAlphabet, MaxHexLen) \cup HexExamples

NameA == <<97>>
NameAA == <<97, 97>>

\* $a$aa   \$a$aa   $aa.$a   \\$a\$a   $A_9-a   $z{$0:   $Z[$a`   $a/$a@
VarExamples ==
    { <<36, 97, 36, 97, 97>>,
      <<92, 36, 97, 36, 97, 97>>,
      <<36, 97, 97, 46, 36, 97>>,
      <<92, 92, 36, 97, 92, 36, 97>>,
      <<36, 65, 95, 57, 45, 97>>,
      <<36, 122, 123, 36, 48, 58>>,
      <<36, 90, 91, 36, 97, 96>>,
      <<36, 97, 47, 36, 97, 64>> }

VarTexts == SeqsUpTo(VarAlphabet, MaxVarLen) \cup VarExamples

Callable(r) == [t |-> "callable", ret |-> StrV(r)]
Managed(r) == [t |-> "managed", getter |-> StrV(r), setter |-> FALSE]

\* "x x", "x  x", " x x "
ValuesA ==
    {StrV(v) : v \in SeqsUpTo(ValAlphabet, MaxValLen)}
        \cup {StrV(<<120, 32, 120>>), StrV(<<120, 32, 32, 120>>),
              StrV(<<32, 120, 32, 120, 32>>),
              Callable(<<120, 32, 120>>), Managed(<<120, 32, 120>>), Unset}

\* "4 4"
ValuesAA == {StrV(<<52, 32, 52>>), Unset}

MakeNs(a, aa) ==
    [n \in (IF a = Unset THEN {} ELSE {NameA}) \cup (IF aa = Unset THEN {} ELSE {NameAA})
        |-> IF n = NameA THEN a ELSE aa]

Namespaces == {MakeNs(a, aa) : a \in ValuesA, aa \in ValuesAA}

Quotes == {None, StrV(<<34>>)}

\* echo -e \x41\x42 $undefined$name
NameUndefined == <<117, 110, 100, 101, 102, 105, 110, 101, 100>>
NameName == <<110, 97, 109, 101>>
TextWorld == <<87, 111, 114, 108, 100>>

ExampleLine ==
    << StringToken(IntV(0), <<101, 99, 104, 111>>, None),
       WhitespaceToken(IntV(4)),
       StringToken(IntV(5), <<45, 101>>, None),
       WhitespaceToken(IntV(7)),
       StringToken(IntV(8), <<92, 120, 52, 49, 92, 120, 52, 50>>, None),
       WhitespaceToken(IntV(16)),
       StringToken(IntV(17), <<Dollar>> \o NameUndefined \o <<Dollar>> \o NameName, None) >>

\* echo -e \x41\x42 $undefined $name
ExampleLineSpaced ==
    SubSeq(ExampleLine, 1, 6)
        \o << StringToken(IntV(17), <<Dollar>> \o NameUndefined, None),
              WhitespaceToken(IntV(27)),
              StringToken(IntV(28), <<Dollar>> \o NameName, None) >>

ExampleNs == [n \in {NameName} |-> StrV(TextWorld)]

ThreadsNew ==
    /\ tstate = [t \in Threads |-> "new"]
    /\ rc = [t \in Threads |-> None]
    /\ exc_info = [t \in Threads |-> None]
    /\ result = [t \in Threads |-> Unset]
    /\ closed = [t \in Threads |-> FALSE]
    /\ closeCalls = [t \in Threads |-> 0]
    /\ stopPc = [t \in Threads |-> "idle"]
    /\ stopCalls = [t \in Threads |-> 0]
    /\ stopAt = [t \in Threads |-> "none"]
    /\ escaped = [t \in Threads |-> FALSE]

\* sys.stdout wrapped at start-up: a terminal 80 columns wide, no overrides
Canonical == Triple(Stream("stdout"), IntV(80), None)

StreamNew ==
    /\ _target = Canonical
    /\ _proxies = [i \in {} |-> Canonical]
    /\ fetched = [t \in StreamThreads |-> None]
    /\ lastWrite = None
    /\ installed = [t \in StreamThreads |-> None]
    /\ stage = [t \in StreamThreads |-> IF t = "main" THEN "alive" ELSE "new"]

NoCommand ==
    /\ args = <<>>
    /\ status = Unset
    /\ reports = <<>>
    /\ cmdRaised = None

NoLine ==
    /\ tokens = <<>>
    /\ origTokens = <<>>
    /\ plugins = {}
    /\ ran = {}
    /\ raised = None
    /\ ns = ExampleNs
    /\ nsInit = ExampleNs

\* a line of one String token for the hex decoder alone, a line of one
\* String token for the variable engine alone, or the example line for both
InitLine ==
    /\ \/ /\ \E text \in HexTexts : tokens = <<StringToken(IntV(0), text, None)>>
          /\ plugins = {"hex"}
          /\ ns = ExampleNs
       \/ /\ \E text \in VarTexts, q \in Quotes : tokens = <<StringToken(IntV(0), text, q)>>
          /\ plugins = {"var"}
          /\ ns \in Namespaces
       \/ /\ tokens \in {ExampleLine, ExampleLineSpaced}
          /\ plugins = {"hex", "var"}
          /\ ns = ExampleNs
    /\ origTokens = tokens
    /\ nsInit = ns
    /\ ran = {}
    /\ raised = None

Init == InitLine /\ ThreadsNew /\ StreamNew /\ NoCommand

Next == HexOnTokenize \/ VarOnTokenize

Spec == Init /\ [][Next]_vars

InitThreads == NoLine /\ ThreadsNew /\ StreamNew /\ NoCommand

NextThreads ==
    \E t \in Threads :
        \/ Start(t)
        \/ Block(t)
        \/ Unblock(t)
        \/ RunReturn(t)
        \/ RunRaise(t)
        \/ BlockedFail(t)
        \/ Exit(t)
        \/ StopBegin(t)
        \/ StopClose(t)

SpecThreads == InitThreads /\ [][NextThreads]_vars

\* Fairness: a caller inside stop() goes on to close_streams(); an operation
\* pending on a closed stream fails or returns; an invocation that is not
\* waiting on a stream returns or raises; a thread whose run() ended ends.
FairThreads ==
    \A t \in Threads :
        /\ WF_vars(StopClose(t))
        /\ WF_vars(closed[t] /\ (Unblock(t) \/ BlockedFail(t)))
        /\ WF_vars(closed[t] /\ (RunReturn(t) \/ RunRaise(t)))
        /\ WF_vars(Exit(t))

SpecThreadsFair == InitThreads /\ [][NextThreads]_vars /\ FairThreads

InitStream == NoLine /\ ThreadsNew /\ StreamNew /\ NoCommand

NextStream ==
    \E t \in StreamThreads :
        \/ Spawn(t)
        \/ \E triple \in Overrides(t) : Proxy(t, triple)
        \/ \E ident \in {None, IntV(Ident(t))} : Unproxy(t, ident)
        \/ GetWrite(t)
        \/ CallWrite(t)
        \/ End(t)

SpecStream == InitStream /\ [][NextStream]_vars

\* the words of a  var  command
Words == {WordL, WordD, NameA, NameErrno, WordEq, WordPlus, WordX}

\* var -h    var a = x a = x
ArgExamples == { <<WordH>>, <<NameA, WordEq, WordX, NameA, WordEq, WordX>> }

ArgLists == SeqsUpTo(Words, MaxArgs) \cup ArgExamples

\* the namespace after VariablePlugin.setup: errno is managed and has no
\* setter; a is not set, a str, a callable, or managed with or without setter
CommandNs(a) ==
    [n \in {NameErrno} \cup (IF a = Unset THEN {} ELSE {NameA})
        |-> IF n = NameErrno THEN Managed(<<48>>) ELSE a]

CommandNamespaces ==
    {CommandNs(a) : a \in {Unset, StrV(<<52>>), Callable(<<52>>),
                            Managed(<<52>>), ManagedSettable(<<52>>)}}

InitCommand ==
    /\ tokens = <<>>
    /\ origTokens = <<>>
    /\ plugins = {}
    /\ ran = {}
    /\ raised = None
    /\ ns \in CommandNamespaces
    /\ nsInit = ns
    /\ args \in ArgLists
    /\ status = Unset
    /\ reports = <<>>
    /\ cmdRaised = None
    /\ ThreadsNew
    /\ StreamNew

NextCommand == RunCommand

SpecCommand == InitCommand /\ [][NextCommand]_vars

\* the commands of a session: assignments to a, errno and x, with and
\* without a value, deletions, listings, and two malformed commands
SessionCommands ==
    { <<NameA, WordEq, WordX>>, <<NameA, WordEq>>,
      <<NameErrno, WordEq, WordX>>, <<NameErrno, WordEq>>,
      <<WordX, WordEq, NameA>>,
      <<WordD, NameA>>, <<WordD, NameErrno>>, <<WordD, WordX>>, <<WordD>>,
      <<WordL>>, <<WordH>>,
      <<NameErrno, WordPlus, WordX>>, <<>> }

\* a session starts after VariablePlugin.setup, with no command run yet
InitSession ==
    /\ tokens = <<>>
    /\ origTokens = <<>>
    /\ plugins = {}
    /\ ran = {}
    /\ raised = None
    /\ ns \in CommandNamespaces
    /\ nsInit = ns
    /\ NoCommand
    /\ ThreadsNew
    /\ StreamNew

NextSession == \E a \in SessionCommands : SessionCommand(a)

SpecSession == InitSession /\ [][NextSession]_vars

---------------------------------------------------------------------------
(* Claims about HexCodePlugin.on_tokenize *)

\* only the hex decoder has run on the line
HexRan == ran = {"hex"}

\* at position i of text a backslash is met in the normal state and is
\* followed by x and two more characters
EscapeAt(text, i) ==
    /\ i + 3 <= Len(text)
    /\ text[i] = Backslash
    /\ text[i + 1] = LowerX
    /\ HexNormal(HexScan(text, i - 1))

NoBackslashFrom(text, i) == \A j \in i..Len(text) : text[j] # Backslash

\* C1: an invalid escape \xcd met in the normal state appends exactly \xcd
\* once and leaves the decoder in the normal state; when no escape follows,
\* the token's text after on_tokenize is what was emitted up to the escape,
\* the four characters of the escape, and the rest of the text unchanged.
C1_InvalidEscapeVerbatimOnce ==
    HexRan =>
        \A k \in 1..Len(origTokens) :
            IsString(origTokens[k]) =>
                LET text == origTokens[k].text
                IN  \A i \in 1..Len(text) :
                        (EscapeAt(text, i) /\ ~IntBase16(SubSeq(text, i + 2, i + 3)).ok) =>
                            LET before == HexScan(text, i - 1)
                                after == HexScan(text, i + 3)
                            IN  /\ HexNormal(after)
                                /\ after.text = before.text \o SubSeq(text, i, i + 3)
                                /\ NoBackslashFrom(text, i + 4) =>
                                       tokens[k].text =
                                           after.text \o SubSeq(text, i + 4, Len(text))

SameToken(a, b) ==
    /\ a.type = b.type
    /\ a.index = b.index
    /\ IsString(a) => a.quote = b.quote

\* C15: on_tokenize hands back the list it was given, with the same tokens
\* in the same order: none is created, removed or reordered, whether the
\* call returns or raises; a token that is not a String token and a String
\* token whose text has no backslash are as they were, and the decoder loop
\* itself maps a text with no backslash to that text.
C15_HexFrame ==
    HexRan =>
        /\ Len(tokens) = Len(origTokens)
        /\ \A k \in 1..Len(origTokens) :
            /\ SameToken(origTokens[k], tokens[k])
            /\ ~IsString(origTokens[k]) => tokens[k] = origTokens[k]
            /\ (IsString(origTokens[k]) /\ ~Contains(origTokens[k].text, Backslash)) =>
                   /\ tokens[k] = origTokens[k]
                   /\ LET text == origTokens[k].text
                      IN  HexFinish(HexScan(text, Len(text))) = text

\* echo -e \x41\x42 $undefined$name : seven tokens before and after, the
\* fifth decoded to AB, the others untouched
C15_Witness ==
    /\ HexRan
    /\ raised = None
    /\ origTokens = ExampleLine
    /\ Len(tokens) = 7
    /\ tokens[5].text = <<65, 66>>
    /\ tokens[4] = WhitespaceToken(IntV(7))
    /\ \A k \in {1, 2, 3, 4, 6, 7} : tokens[k] = origTokens[k]

\* C16: when the text ends right after a backslash met in the normal state,
\* the output ends with that backslash; when it ends after the x that
\* follows it, or after one more character, the output ends with \x and
\* the digits collected so far (none, or one): nothing of the unfinished
\* escape is dropped.
C16_UnfinishedEscapeKept ==
    HexRan =>
        \A k \in 1..Len(origTokens) :
            IsString(origTokens[k]) =>
                LET text == origTokens[k].text
                IN  \A i \in 1..Len(text) :
                        ( /\ text[i] = Backslash
                          /\ HexNormal(HexScan(text, i - 1))
                          /\ Len(text) <= i + 2
                          /\ Len(text) > i => text[i + 1] = LowerX ) =>
                            tokens[k].text =
                                HexScan(text, i - 1).text \o SubSeq(text, i, Len(text))

---------------------------------------------------------------------------
(* Claims about variable substitution *)

\* only the variable engine has run on the line
VarRan == ran = {"var"}

\* the line is one String token that the variable engine has processed
VarRanOnOne ==
    /\ VarRan
    /\ Len(origTokens) = 1
    /\ IsString(origTokens[1])
    /\ Contains(origTokens[1].text, Prefix)

\* the backslash at position i is met outside an escape, so it escapes the
\* character after it: the run of backslashes ending at i has odd length
RECURSIVE Escaping(_, _)
Escaping(text, i) ==
    /\ i >= 1
    /\ i <= Len(text)
    /\ text[i] = Backslash
    /\ ~Escaping(text, i - 1)

\* the source offset of a reference: get_subtokens builds a reference that
\* directly follows another one with index and prefix exchanged
RefOffset(v) == IF v.index.t = "int" THEN v.index.v ELSE v.prefix.v

IsReferenceAt(subts, offset) ==
    \E n \in 1..Len(subts) : subts[n].type = "Variable" /\ RefOffset(subts[n]) = offset

\* text with no reference in it, as one literal: the backslash of an escaped
\* prefix is dropped, as is a backslash that ends the text; any other
\* escape keeps both characters
RECURSIVE Literal(_, _)
Literal(text, i) ==
    IF i > Len(text) THEN <<>>
    ELSE IF text[i] # Backslash THEN <<text[i]>> \o Literal(text, i + 1)
    ELSE IF i = Len(text) THEN <<>>
    ELSE IF text[i + 1] = Prefix THEN <<Prefix>> \o Literal(text, i + 2)
    ELSE <<Backslash, text[i + 1]>> \o Literal(text, i + 2)

\* C3 as stated: a prefix that directly follows a backslash never starts a
\* reference.
C3_BackslashPrefixNeverReference ==
    VarRanOnOne =>
        LET tok == origTokens[1]
            text == tok.text
            subts == get_subtokens(tok, Prefix)
        IN  \A i \in 1..(Len(text) - 1) :
                (text[i] = Backslash /\ text[i + 1] = Prefix) =>
                    ~IsReferenceAt(subts, tok.index.v + i)

\* C3 amended: a prefix that directly follows an escaping backslash (one
\* that ends an odd-length run of backslashes) starts no reference; the
\* backslash is dropped and the prefix joins the current literal, as do the
\* name characters after it, nothing being yielded meanwhile; and a text all
\* of whose prefixes are escaped becomes one String token holding the
\* literal text, whatever the namespace holds.
C3_EscapedPrefixIsLiteral ==
    VarRanOnOne =>
        LET tok == origTokens[1]
            text == tok.text
            subts == get_subtokens(tok, Prefix)
        IN  /\ \A i \in 1..(Len(text) - 1) :
                   (Escaping(text, i) /\ text[i + 1] = Prefix) =>
                       LET b == SubScan(tok, Prefix, i)
                           a == SubScan(tok, Prefix, i + 1)
                       IN  /\ ~IsReferenceAt(subts, tok.index.v + i)
                           /\ b.escape /\ ~a.escape
                           /\ a.var = None
                           /\ a.out = b.out
                           /\ a.subt.text = Append(b.subt.text, Prefix)
                           /\ \A j \in (i + 2)..Len(text) :
                                  (\A m \in (i + 2)..j : IsVarChar(text[m])) =>
                                      LET c == SubScan(tok, Prefix, j)
                                      IN  /\ c.out = a.out
                                          /\ c.subt.text =
                                                a.subt.text \o SubSeq(text, i + 2, j)
            /\ (\A i \in 1..Len(text) : text[i] = Prefix => Escaping(text, i - 1)) =>
                   tokens = <<StringToken(tok.index, Literal(text, 1), tok.quote)>>

\* \$a with a set to "x x" has become the one literal $a
C3_Witness ==
    /\ VarRanOnOne
    /\ origTokens[1].text = <<Backslash, Dollar, 97>>
    /\ NameA \in DOMAIN nsInit
    /\ nsInit[NameA] = StrV(<<120, 32, 120>>)
    /\ tokens = <<StringToken(IntV(0), <<Dollar, 97>>, None)>>

\* the line is the one unquoted token $a, processed by the variable engine,
\* with a holding a plain string
SingleReferenceUnquoted ==
    /\ VarRanOnOne
    /\ origTokens[1].text = <<Prefix>> \o NameA
    /\ ~Truthy(origTokens[1].quote)
    /\ NameA \in DOMAIN nsInit
    /\ nsInit[NameA].t = "str"

NumSpaces(v) == Cardinality({i \in 1..Len(v) : v[i] = Space})

\* the number of maximal runs of non-whitespace characters of v
NumWords(v) ==
    Cardinality({i \in 1..Len(v) :
        ~IsWhitespace(v[i]) /\ (i = 1 \/ IsWhitespace(v[i - 1]))})

\* every space of v stands between two characters that are not spaces
SpacesIsolated(v) ==
    \A i \in 1..Len(v) :
        v[i] = Space => i > 1 /\ i < Len(v) /\ v[i - 1] # Space /\ v[i + 1] # Space

RECURSIVE WithoutWhitespace(_)
WithoutWhitespace(v) ==
    IF v = <<>> THEN <<>>
    ELSE (IF IsWhitespace(Head(v)) THEN <<>> ELSE <<Head(v)>>) \o WithoutWhitespace(Tail(v))

\* the texts of the String tokens among the first n tokens, concatenated
RECURSIVE StringTexts(_, _)
StringTexts(toks, n) ==
    IF n = 0 THEN <<>>
    ELSE StringTexts(toks, n - 1) \o (IF IsString(toks[n]) THEN toks[n].text ELSE <<>>)

NumOfType(toks, type) == Cardinality({n \in 1..Len(toks) : toks[n].type = type})

\* String tokens at the odd places, Whitespace tokens at the even ones
Alternating(toks) ==
    \A n \in 1..Len(toks) :
        toks[n].type = (IF n % 2 = 1 THEN "String" ELSE "Whitespace")

\* C4 as stated: a value with N spaces becomes N+1 String tokens with one
\* Whitespace token between each consecutive pair.
C4_SpacesPlusOneTokens ==
    SingleReferenceUnquoted =>
        LET v == nsInit[NameA].v
        IN  /\ Len(tokens) = 2 * NumSpaces(v) + 1
            /\ Alternating(tokens)

\* C4 amended: a value with W maximal runs of non-whitespace characters
\* becomes W String tokens, one per run, with one Whitespace token between
\* each consecutive pair (no token at all when W = 0); that is N+1 String
\* tokens when the value is not empty and each of its N spaces stands
\* between two characters that are not spaces.
C4_WordsBecomeTokens ==
    SingleReferenceUnquoted =>
        LET v == nsInit[NameA].v
            W == NumWords(v)
        IN  /\ Len(tokens) = IF W = 0 THEN 0 ELSE 2 * W - 1
            /\ Alternating(tokens)
            /\ \A n \in 1..Len(tokens) :
                   IsString(tokens[n]) =>
                       /\ tokens[n].text # <<>>
                       /\ \A i \in 1..Len(tokens[n].text) : ~IsWhitespace(tokens[n].text[i])
            /\ StringTexts(tokens, Len(tokens)) = WithoutWhitespace(v)
            /\ (v # <<>> /\ SpacesIsolated(v)) =>
                   NumOfType(tokens, "String") = NumSpaces(v) + 1

\* $a with a set to "x  x" (two adjacent spaces) has become x, Whitespace, x
C4_Witness ==
    /\ SingleReferenceUnquoted
    /\ nsInit[NameA] = StrV(<<120, 32, 32, 120>>)
    /\ Len(tokens) = 3
    /\ tokens[1].text = <<120>>
    /\ tokens[2].type = "Whitespace"
    /\ tokens[3].text = <<120>>

\* what a reference to name resolves to in namespace nsp
Resolved(nsp, name) ==
    IF name \notin DOMAIN nsp THEN <<>>
    ELSE IF nsp[name].t = "callable" THEN nsp[name].ret.v
    ELSE IF nsp[name].t = "managed" THEN nsp[name].getter.v
    ELSE nsp[name].v

\* C5: a quoted token becomes one String token per subtoken, each carrying
\* the token's quote marker; the one for a reference holds the resolved
\* value unchanged; no Whitespace token is among them.
C5_QuotedNeverSplits ==
    (VarRanOnOne /\ Truthy(origTokens[1].quote)) =>
        LET tok == origTokens[1]
            subts == get_subtokens(tok, Prefix)
        IN  /\ NumOfType(tokens, "Whitespace") = 0
            /\ Len(tokens) = Len(subts)
            /\ \A n \in 1..Len(subts) :
                   /\ IsString(tokens[n])
                   /\ tokens[n].quote = tok.quote
                   /\ subts[n].type = "Variable" =>
                          tokens[n].text = Resolved(nsInit, subts[n].var)

\* "$a" with a set to "x  x" has become the one quoted token "x  x"
C5_Witness ==
    /\ VarRanOnOne
    /\ origTokens[1].text = <<Prefix>> \o NameA
    /\ origTokens[1].quote = StrV(<<34>>)
    /\ NameA \in DOMAIN nsInit
    /\ nsInit[NameA] = StrV(<<120, 32, 32, 120>>)
    /\ tokens = <<StringToken(IntV(0), <<120, 32, 32, 120>>, StrV(<<34>>))>>

\* C6: a quoted token that is one reference $name becomes the empty string
\* when name is absent, what the callable returns when the value is
\* callable, what the getter returns when it is a ManagedVariable, and the
\* stored value otherwise; and on_tokenize leaves the namespace as it was.
C6_ExpandFourCases ==
    VarRan =>
        /\ ns = nsInit
        /\ ( /\ VarRanOnOne
             /\ Truthy(origTokens[1].quote)
             /\ Head(origTokens[1].text) = Prefix
             /\ \A i \in 2..Len(origTokens[1].text) : IsVarChar(origTokens[1].text[i]) ) =>
                LET name == Tail(origTokens[1].text)
                    value == IF name \notin DOMAIN nsInit THEN <<>>
                             ELSE IF nsInit[name].t = "callable" THEN nsInit[name].ret.v
                             ELSE IF nsInit[name].t = "managed" THEN nsInit[name].getter.v
                             ELSE nsInit[name].v
                IN  /\ Len(tokens) = 1
                    /\ tokens[1].text = value

\* "$a" with a a ManagedVariable whose getter returns "x x" has become "x x"
C6_Witness ==
    /\ VarRanOnOne
    /\ Truthy(origTokens[1].quote)
    /\ origTokens[1].text = <<Prefix>> \o NameA
    /\ NameA \in DOMAIN nsInit
    /\ nsInit[NameA].t = "managed"
    /\ tokens[1].text = <<120, 32, 120>>
    /\ ns = nsInit

\* the unquoted token is two references with nothing between them
TwoAdjacentReferences(text, p) ==
    /\ Len(text) >= 2
    /\ text[1] = Prefix
    /\ p \in 2..Len(text)
    /\ text[p] = Prefix
    /\ \A i \in 2..Len(text) : i # p => IsVarChar(text[i])

AtLeastZero(n) == IF n < 0 THEN 0 ELSE n

\* C7: the example line \x41\x42 $undefined$name ends, after both hooks, with
\* the token AB, one Whitespace token and the one String token World; and
\* an unquoted token $n1$n2 becomes the words of the first value followed
\* directly by the words of the second: the only Whitespace tokens are those
\* between two words of one value, and no String token is empty.
C7_AdjacentExpansionsConcatenate ==
    /\ (ran = {"hex", "var"} /\ origTokens = ExampleLine) =>
            /\ Len(tokens) = 7
            /\ \A n \in 1..4 : tokens[n] = origTokens[n]
            /\ tokens[5] = StringToken(IntV(8), <<65, 66>>, None)
            /\ tokens[6] = origTokens[6]
            /\ IsString(tokens[7])
            /\ tokens[7].text = TextWorld
    /\ (VarRanOnOne /\ ~Truthy(origTokens[1].quote)) =>
            LET text == origTokens[1].text
            IN  \A p \in 2..Len(text) :
                    TwoAdjacentReferences(text, p) =>
                        LET v1 == Resolved(nsInit, SubSeq(text, 2, p - 1))
                            v2 == Resolved(nsInit, SubSeq(text, p + 1, Len(text)))
                        IN  /\ NumOfType(tokens, "Whitespace") =
                                   AtLeastZero(NumWords(v1) - 1) + AtLeastZero(NumWords(v2) - 1)
                            /\ NumOfType(tokens, "String") = NumWords(v1) + NumWords(v2)
                            /\ \A n \in 1..Len(tokens) :
                                   IsString(tokens[n]) => tokens[n].text # <<>>
                            /\ StringTexts(tokens, Len(tokens)) =
                                   WithoutWhitespace(v1) \o WithoutWhitespace(v2)

\* the example line has become echo -e AB World
C7_Witness ==
    /\ ran = {"hex", "var"}
    /\ origTokens = ExampleLine
    /\ Len(tokens) = 7
    /\ tokens[5].text = <<65, 66>>
    /\ tokens[7].text = TextWorld

\* index is an integer offset from lo to hi
IsOffset(index, lo, hi) == index.t = "int" /\ index.v >= lo /\ index.v <= hi

\* the indices of toks are integer offsets from lo to hi that never decrease
OffsetsInOrder(toks, lo, hi) ==
    /\ \A n \in 1..Len(toks) : IsOffset(toks[n].index, lo, hi)
    /\ \A n \in 1..Len(toks) - 1 : toks[n].index.v <= toks[n + 1].index.v

\* C17: every subtoken get_subtokens yields for a token, and every token
\* on_tokenize emits from them, has as index an integer offset from
\* token.index to token.index + len(text), the indices never decrease in
\* emission order, and the prefix field of every VariableToken is the
\* prefix character.
C17_IndicesAreOffsets ==
    VarRanOnOne =>
        LET token == origTokens[1]
            subts == get_subtokens(token, Prefix)
            lo == token.index.v
            hi == token.index.v + Len(token.text)
        IN  /\ OffsetsInOrder(subts, lo, hi)
            /\ OffsetsInOrder(tokens, lo, hi)
            /\ \A n \in 1..Len(subts) :
                   subts[n].type = "Variable" => subts[n].prefix = StrV(<<Prefix>>)

\* the characters a name is made of: a-z A-Z 0-9 _
NameChars == (97..122) \cup (65..90) \cup (48..57) \cup {95}

\* the last position of the run of name characters that starts at i + 1
RECURSIVE NameEnd(_, _)
NameEnd(text, i) ==
    IF i < Len(text) /\ text[i + 1] \in NameChars THEN NameEnd(text, i + 1) ELSE i

\* the references among subts that were met at the given offset
ReferencesAt(subts, offset) ==
    {n \in 1..Len(subts) : subts[n].type = "Variable" /\ RefOffset(subts[n]) = offset}

\* C19: a prefix met outside an escape starts a reference whose name is the
\* longest run of characters of [A-Za-z0-9_] after it, possibly empty; the
\* reference is yielded once, at the first character outside the set or at
\* the end of the text; that character is not part of the name: a prefix
\* starts a new reference, a backslash starts an escape, any other
\* character starts the next literal.
C19_NameIsMaximalRun ==
    VarRanOnOne =>
        LET tok == origTokens[1]
            text == tok.text
            subts == get_subtokens(tok, Prefix)
        IN  \A i \in 1..Len(text) :
                (text[i] = Prefix /\ ~Escaping(text, i - 1)) =>
                    LET j == NameEnd(text, i)
                        refs == ReferencesAt(subts, tok.index.v + i - 1)
                    IN  /\ Cardinality(refs) = 1
                        /\ \A n \in refs : subts[n].var = SubSeq(text, i + 1, j)
                        /\ j < Len(text) =>
                               LET b == SubScan(tok, Prefix, j)
                                   a == SubScan(tok, Prefix, j + 1)
                                   c == text[j + 1]
                               IN  /\ Len(a.out) = Len(b.out) + 1
                                   /\ a.out[Len(a.out)].type = "Variable"
                                   /\ a.out[Len(a.out)].var = SubSeq(text, i + 1, j)
                                   /\ c = Prefix =>
                                          /\ a.var # None
                                          /\ a.var.var = <<>>
                                          /\ RefOffset(a.var) = tok.index.v + j
                                   /\ c = Backslash =>
                                          /\ a.var = None
                                          /\ a.escape
                                          /\ a.subt.text = <<>>
                                   /\ c \notin {Prefix, Backslash} =>
                                          /\ a.var = None
                                          /\ ~a.escape
                                          /\ a.subt.text = <<c>>
                                          /\ a.subt.index = IntV(tok.index.v + j)

\* $A_9-a has been read as the reference A_9 and the literal -a, and
\* a reference followed by a prefix or a backslash is in the input as well
C19_Witness ==
    /\ VarRanOnOne
    /\ origTokens[1].text = <<36, 65, 95, 57, 45, 97>>
    /\ LET subts == get_subtokens(origTokens[1], Prefix)
       IN  /\ Len(subts) = 2
           /\ subts[1].type = "Variable"
           /\ subts[1].var = <<65, 95, 57>>
           /\ subts[2].text = <<45, 97>>
    /\ tokens[Len(tokens)].text = <<45, 97>>

\* text with every backslash-prefix pair replaced by the prefix alone
RECURSIVE Unescaped(_, _)
Unescaped(text, i) ==
    IF i > Len(text) THEN <<>>
    ELSE IF text[i] # Backslash THEN <<text[i]>> \o Unescaped(text, i + 1)
    ELSE IF i = Len(text) THEN <<Backslash>>
    ELSE IF text[i + 1] = Prefix THEN <<Prefix>> \o Unescaped(text, i + 2)
    ELSE <<Backslash, text[i + 1]>> \o Unescaped(text, i + 2)

\* the text of the first n subtokens: a literal as it is, a reference as the
\* prefix and its name
RECURSIVE Rendered(_, _)
Rendered(subts, n) ==
    IF n = 0 THEN <<>>
    ELSE Rendered(subts, n - 1)
            \o (IF subts[n].type = "Variable" THEN <<Prefix>> \o subts[n].var
                ELSE subts[n].text)

\* C20: the subtokens of get_subtokens, literals as they are and references
\* as prefix and name, concatenated in emission order, are the text of the
\* token with every backslash-prefix pair replaced by the prefix: a
\* backslash before another character stays with that character, and a
\* backslash that ends the text stays.
C20_NoCharacterLost ==
    VarRanOnOne =>
        LET tok == origTokens[1]
            subts == get_subtokens(tok, Prefix)
        IN  Rendered(subts, Len(subts)) = Unescaped(tok.text, 1)

---------------------------------------------------------------------------
(* Claims about InvocationThread *)

RunEnded(t) == tstate[t] \in {"exiting", "dead"}

\* C8: no exception leaves run(); rc and exc_info of a thread are never both
\* set; they are both None until the thread's invocation ends; afterwards
\* either the invocation returned, exc_info is None and rc is what it
\* returned, or it raised, exc_info is the exception and rc is None; and
\* the step that ends one thread's invocation leaves rc and exc_info of
\* every other thread as they were.
C8_FailureCapturedAsData ==
    /\ [](\A t \in Threads :
            /\ ~escaped[t]
            /\ ~(rc[t] # None /\ exc_info[t] # None)
            /\ ~RunEnded(t) => (rc[t] = None /\ exc_info[t] = None)
            /\ RunEnded(t) =>
                   \/ result[t].t = "exc" /\ exc_info[t] = result[t] /\ rc[t] = None
                   \/ result[t] \in ReturnCodes /\ exc_info[t] = None /\ rc[t] = result[t])
    /\ [][\A t \in Threads :
            (~RunEnded(t) /\ RunEnded(t)') =>
                \A u \in Threads \ {t} : rc'[u] = rc[u] /\ exc_info'[u] = exc_info[u]]_vars

\* one thread raised after its sibling had returned 0
C8_Witness ==
    \E t \in Threads, u \in Threads :
        /\ t # u
        /\ tstate[t] = "dead" /\ result[t].t = "exc" /\ exc_info[t] # None /\ rc[t] = None
        /\ tstate[u] = "dead" /\ rc[u] = IntV(0) /\ exc_info[u] = None

\* C9: a stop() call that finds the thread not alive (never started, or
\* ended) returns at once: it does not go on to close_streams(), and the
\* step changes no stream, no close_streams() count, no rc and no exc_info;
\* so a caller is about to call close_streams() only after finding the
\* thread alive.
C9_StopOnDeadIsNoOp ==
    /\ [][\A t \in Threads :
            (stopCalls'[t] # stopCalls[t] /\ tstate[t] \in {"new", "dead"}) =>
                /\ stopPc'[t] = "idle"
                /\ closed' = closed
                /\ closeCalls' = closeCalls
                /\ rc' = rc
                /\ exc_info' = exc_info]_vars
    /\ [](\A t \in Threads :
            stopPc[t] = "closing" => stopAt[t] \in {"running", "blocked", "exiting"})

\* stop() was called twice on a thread that had ended with rc 0, and once on
\* one never started, and close_streams() was never called
C9_Witness ==
    \E t \in Threads, u \in Threads :
        /\ t # u
        /\ tstate[t] = "dead" /\ stopAt[t] = "dead" /\ stopCalls[t] = 2
        /\ closeCalls[t] = 0 /\ ~closed[t] /\ rc[t] = IntV(0)
        /\ tstate[u] = "new" /\ stopAt[u] = "new" /\ closeCalls[u] = 0

C18_CloseOnlyWhileLive ==
    [][\A t \in Threads : closeCalls'[t] # closeCalls[t] => is_alive(t)]_vars

---------------------------------------------------------------------------
(* Claims about ThreadLocalStream *)

\* thread t holds an override of its own
HasOverride(t) == installed[t] # None

\* C11: in the chain  a | b | c , every write the thread of stage a makes
\* through the stream while its override is installed arrives at the input
\* of b and not at the canonical output, and no write or pending write of
\* another thread (b, c or main) is diverted into the input of b.
C11_StageOutputReachesNextStage ==
    /\ lastWrite # None =>
        /\ (lastWrite.by = "a" /\ lastWrite.own # None) =>
               /\ lastWrite.to = Stream("bIn")
               /\ lastWrite.to # _target.target
        /\ lastWrite.by # "a" => lastWrite.to # Stream("bIn")
    /\ (HasOverride("a") /\ fetched["a"] # None) => fetched["a"] = Stream("bIn")
    /\ \A u \in StreamThreads \ {"a"} : fetched[u] # Stream("bIn")

\* stage a has written into b's input while stage c, alive beside it, is in
\* the middle of a write to the canonical output
C11_Witness ==
    /\ lastWrite # None
    /\ lastWrite.by = "a"
    /\ lastWrite.to = Stream("bIn")
    /\ HasOverride("a")
    /\ stage["a"] = "alive"
    /\ stage["c"] = "alive"
    /\ fetched["c"] = Stream("stdout")
    /\ fetched["main"] = Stream("stdout")

\* what thread t must see: its own override, else the canonical triple
Effective(t) == IF HasOverride(t) THEN installed[t] ELSE Canonical

\* thread t sees through every accessor the triple it installed last and has
\* not removed, else the canonical triple, which is as it was constructed
EffectiveIsOwn ==
    /\ _target = Canonical
    /\ \A t \in StreamThreads :
        /\ _get_target(t) = Effective(t)
        /\ _get_target_stream(t) = Effective(t).target
        /\ width(t) = Effective(t).width
        /\ __getattr__(t) = Effective(t).target
        /\ isatty(t) = IF Effective(t).isatty # None THEN Effective(t).isatty
                       ELSE StreamIsatty(Effective(t).target)

\* an install or a removal by thread t leaves what every other thread sees
\* and the canonical triple alone; removing an absent entry changes nothing
OthersUntouched ==
    \A t \in StreamThreads :
        /\ ((\E triple \in Overrides(t) : Proxy(t, triple))
               \/ (\E ident \in {None, IntV(Ident(t))} : Unproxy(t, ident)))
           => /\ \A u \in StreamThreads \ {t} : _get_target(u)' = _get_target(u)
              /\ _target' = _target
        /\ ((\E ident \in {None, IntV(Ident(t))} : Unproxy(t, ident)) /\ ~HasOverride(t))
           => _proxies' = _proxies

---------------------------------------------------------------------------
(* Claims about VariableCommand.run *)

\* run() has ended, by returning or by raising
CommandRan == status # Unset \/ cmdRaised # None

\* the arguments are neither empty nor one of the options -h -l -d
IsAssignmentForm(a) == a # <<>> /\ a[1] \notin {WordH, WordL, WordD}

\* the arguments are  name = value  or  name =
WellFormed(a) ==
    /\ IsAssignmentForm(a)
    /\ LET p == ExpressionParse(a)
       IN  /\ p.remaining = <<>>
           /\ p.operand # None
           /\ p.operator = StrV(WordEq)

\* the arguments have no words, or words left over, or no operand, or no
\* operator, or an operator other than =
Malformed(a) ==
    \/ a = <<>>
    \/ /\ IsAssignmentForm(a)
       /\ LET p == ExpressionParse(a)
          IN  \/ p.remaining # <<>>
              \/ p.operand = None
              \/ p.operator = None
              \/ p.operator # StrV(WordEq)

\* name is bound to a ManagedVariable in the namespace
IsManaged(nsp, name) == name \in DOMAIN nsp /\ nsp[name].t = "managed"

\* something was reported on the error channel
ErrorReported == \E i \in 1..Len(reports) : reports[i].channel = "error"

\* C13: after  var name = value  where name is bound to a ManagedVariable
\* with no setter, the entry of name is the same ManagedVariable, a
\* read-only error has been reported on the error channel, and run() has
\* returned with no exception escaping.
C13_ReadOnlyAssignmentReported ==
    (/\ CommandRan
     /\ WellFormed(args)
     /\ IsManaged(nsInit, ExpressionParse(args).operand.v)
     /\ ~nsInit[ExpressionParse(args).operand.v].setter)
    => /\ ns = nsInit
       /\ ErrorReported
       /\ cmdRaised = None
       /\ status # Unset

\* the value a well-formed assignment gives: '' when none was written
AssignedValue(a) ==
    LET p == ExpressionParse(a) IN IF p.value = None THEN StrV(<<>>) ELSE p.value

\* a malformed assignment reports a usage error, returns 1 and leaves the
\* namespace as it was
MalformedRejected ==
    (CommandRan /\ Malformed(args))
    => /\ status = IntV(1)
       /\ cmdRaised = None
       /\ Len(reports) = 1
       /\ reports[1].channel = "error"
       /\ reports[1].kind = "usage_error"
       /\ ns = nsInit

\* C14 as stated: a malformed assignment is rejected as above, and every
\* well-formed assignment with a missing value stores '' and returns 0.
C14_MissingValueAlwaysStored ==
    /\ MalformedRejected
    /\ (CommandRan /\ WellFormed(args) /\ ExpressionParse(args).value = None)
       => /\ status = IntV(0)
          /\ ns[ExpressionParse(args).operand.v] = StrV(<<>>)

\* C14: a malformed assignment (no arguments, leftover arguments, no
\* operand, no operator, an operator other than =) reports a usage error,
\* returns 1 and leaves every entry of the namespace unchanged; a well-formed
\* assignment to a name that is not bound to a ManagedVariable stores the
\* value, '' when the value is missing, changes no other entry and returns 0.
C14_MalformedRejectedElseStored ==
    /\ MalformedRejected
    /\ (/\ CommandRan
        /\ WellFormed(args)
        /\ ~IsManaged(nsInit, ExpressionParse(args).operand.v))
       => LET name == ExpressionParse(args).operand.v
          IN  /\ status = IntV(0)
              /\ cmdRaised = None
              /\ reports = <<>>
              /\ DOMAIN ns = DOMAIN nsInit \cup {name}
              /\ ns[name] = AssignedValue(args)
              /\ \A n \in DOMAIN nsInit \ {name} : ns[n] = nsInit[n]

\* var a = x a = x  has been rejected, and so would  var a + x  be
C14_Witness ==
    /\ CommandRan
    /\ args = <<NameA, WordEq, WordX, NameA, WordEq, WordX>>
    /\ Malformed(args)
    /\ Malformed(<<NameA, WordPlus, WordX>>)
    /\ WellFormed(<<NameA, WordEq>>)
    /\ status = IntV(1)
    /\ NameA \in DOMAIN ns

\* name was installed as a ManagedVariable with no setter
ReadOnlyAtSetup(name) ==
    /\ name \in DOMAIN nsInit
    /\ nsInit[name].t = "managed"
    /\ ~nsInit[name].setter

\* C21: after VariablePlugin.setup, whatever sequence of var commands
\* (assignments, var -d name, var -l) has been run, every name installed as
\* a ManagedVariable with no setter still maps to that ManagedVariable: no
\* sequence of commands replaces it by a plain stored value.
C21_ManagedVariablesPersist ==
    \A name \in {NameA, NameErrno, WordX} :
        ReadOnlyAtSetup(name) => (name \in DOMAIN ns /\ ns[name] = nsInit[name])

====
